---- MODULE Spec2Model ----
(***************************************************************************)
(* AutoDropshipper: the reconciliation / comparison pipeline               *)
(* (src/scrapers/main.py, src/database/repositories), the eBay search      *)
(* orchestrator (src/scrapers/ebay/ebay_scraper.py) and the selector       *)
(* fallback manager (src/scrapers/ebay/ebay_selectors.py).                 *)
(*                                                                         *)
(* Money is in whole euros, time in ticks (TicksPerDay ticks make a day).  *)
(* An optional value (None / NULL) is the empty sequence, a present value  *)
(* v is <<v>>.                                                             *)
(***************************************************************************)
EXTENDS Integers, Sequences, FiniteSets, TLC

VARIABLES
    now,        \* wall clock / NOW(), in ticks
    committed,  \* the database as committed (what survives a closed connection)
    working,    \* the database as seen by the open connection's transaction
    pc,         \* position of save_to_database: "idle" or "compare"
    products,   \* save_to_database's `products` argument (the fresh batch)
    worklist,   \* needs_ebay_check returned by process_scraped_products
    idx,        \* 1-based position of the comparison loop in worklist
    runs,       \* number of save_to_database runs started so far
    last,       \* record of the last operation performed (observation only)
    alerts,     \* product ids of the alerts the transport accepted in this
                \* save_to_database run, in the order sent
    \* EbayScraper.search_products
    sPc,        \* "idle", "loop" (inside the for loop), "returned", "raised",
                \* or "done" (run_ebay_scraper has ended)
    attempt,    \* the for loop's next value of attempt
    is_filtered_by_min_price,
    session_open,   \* the SB(...) context is entered
    opens,      \* sb.open calls of this search_products call
    filtered_opens, \* ... of them with the minimum-price filter in the URL
    attempts,   \* per sb.open of this call: was it filtered, how it was classified
    listings_out,   \* the list search_products returned
    parsed_page,    \* the result page listings_out was parsed from (observation)
    ebay_result,    \* what run_ebay_scraper handed to its caller
    \* the module-level selector_manager (SelectorManager)
    successful_selectors,   \* _successful_selectors: key -> cached selector
    failed_combinations,    \* _failed_combinations: {<<id(soup), key, selector>>}
    selLast,        \* record of the last selector operation (observation only)
    prior,          \* the process_scraped_products call before the last one,
                    \* when the repository is called back to back (observation)
    stale,          \* the last staleness decision of process_scraped_products
                    \* on a catalog of one entity (inputs and outcome)
    scored,         \* a ProductComparison object: its fields, the fields
                    \* before the last calculate_profitability, the margin
    notified,       \* the last send_profitable_deal_notification call on its
                    \* own: its inputs and what it did
    priced          \* the last result item parsed on its own: its price
                    \* text, the parsed price and the listing built

dbVars == <<now, committed, working, pc, products, worklist, idx, runs, last,
            alerts>>
searchVars == <<sPc, attempt, is_filtered_by_min_price, session_open, opens,
                filtered_opens, attempts, listings_out, parsed_page,
                ebay_result>>
selVars == <<successful_selectors, failed_combinations, selLast>>
calcVars == <<stale, scored, notified, priced>>
vars == <<dbVars, searchVars, selVars, prior, calcVars>>

----------------------------------------------------------------------------
(* Bounds of the model *)

MaxTime == 4        \* the clock stops advancing here
TicksPerDay == 2    \* resolution of the clock
ThresholdDays == 1  \* ebay_check_threshold_days passed to the reconcile
MaxBatch == 2       \* longest fresh batch
MaxRuns == 2        \* save_to_database runs per behaviour
MaxCalls == 3       \* back-to-back process_scraped_products calls per behaviour
MaxThreshold == 3   \* largest ebay_check_threshold_days tried
MaxListings == 3    \* most listings of a scored comparison
MaxPriceLen == 4    \* longest price text parsed
MinMessageLen == 3996   \* shortest alert message tried
MaxMessageLen == 4196   \* longest alert message tried
MaxItems == 4       \* most <li> elements of a result page
MaxSoupIds == 2     \* distinct values id(soup) takes
MAX_BESTMATCH_ITEMS == 2    \* EbayScraperConfig.MAX_BESTMATCH_ITEMS
MAX_LEASTMATCH_ITEMS == 1   \* EbayScraperConfig.MAX_LEASTMATCH_ITEMS

(* Program constants *)

DefaultMinProfitMargin == 50
MaxAttemptsThree == 2 + 1   \* mutant of MaxAttempts: range(3)
MaxAttempts == 2            \* for attempt in range(2)
TelegramLimit == 4096       \* if len(message) > 4096
TruncateAtLimit == TelegramLimit    \* mutant of TruncateAt: message[:4096]
TruncateAt == 4090          \* message[:4090]
EllipsisLen == 5            \* len("\n\n...")

----------------------------------------------------------------------------
(* Optional values *)

None == <<>>
Some(v) == <<v>>
IsNone(o) == o = <<>>
Get(o) == o[1]

(* Sequence helpers *)

Range(s) == {s[i] : i \in DOMAIN s}

RECURSIVE SeqMin(_)
SeqMin(s) ==
    IF Len(s) = 1 THEN s[1]
    ELSE LET m == SeqMin(Tail(s)) IN IF s[1] <= m THEN s[1] ELSE m

----------------------------------------------------------------------------
(* Inputs *)

\* scraped Idealo products, as the dictionaries built in save_to_database
FreshPool ==
    { [source_url |-> "u1", name |-> "A", price |-> 100],
      [source_url |-> "u1", name |-> "A", price |-> 110],
      [source_url |-> "u2", name |-> "B", price |-> 100],
      [source_url |-> "u2", name |-> "A", price |-> 110] }

RECURSIVE SeqsUpTo(_, _)
SeqsUpTo(S, n) ==
    IF n = 0 THEN {<<>>}
    ELSE LET shorter == SeqsUpTo(S, n - 1)
         IN shorter \cup {Append(s, x) : s \in shorter, x \in S}

Batches == SeqsUpTo(FreshPool, MaxBatch)

\* eBay listings a comparison search can return
L130 == [source_url |-> "e1", price |-> 130, is_best_match |-> TRUE]
L150 == [source_url |-> "e2", price |-> 150, is_best_match |-> FALSE]
L160 == [source_url |-> "e3", price |-> 160, is_best_match |-> TRUE]

ListingRuns == { <<>>, <<L130>>, <<L150, L160>> }

----------------------------------------------------------------------------
(* The database: deal_board_product, deal_board_pricelog,                  *)
(* deal_board_ebaylisting.  A product's id is its position in `product`.   *)

EmptyDb == [product |-> <<>>, pricelog |-> <<>>, ebaylisting |-> <<>>]

\* mutant of deactivate_all_products: the UPDATE is left out
deactivate_all_products_skipped(db) == db

\* UPDATE deal_board_product SET is_active = FALSE
deactivate_all_products(db) ==
    [db EXCEPT !.product =
        [i \in DOMAIN db.product |-> [db.product[i] EXCEPT !.is_active = FALSE]]]

\* mutant of find_by_source_url: the lookup never finds a row
find_by_source_url_none(db, url) == 0

\* SELECT id, price, last_ebay_check ... WHERE source_url = %s; 0 when no row
find_by_source_url(db, url) ==
    LET ids == {i \in DOMAIN db.product : db.product[i].source_url = url}
    IN IF ids = {} THEN 0 ELSE CHOOSE i \in ids : \A j \in ids : i <= j

\* UPDATE ... SET price, discount, is_active = TRUE, updated_at = NOW()
update_product(db, id, price) ==
    [db EXCEPT !.product[id].price = price, !.product[id].is_active = TRUE]

\* INSERT INTO deal_board_product ... RETURNING id
insert_product(db, p) ==
    [db EXCEPT !.product = Append(@,
        [source_url |-> p.source_url, name |-> p.name, price |-> p.price,
         is_active |-> TRUE, last_ebay_check |-> None,
         potential_profit |-> None, profit_percentage |-> None,
         is_profitable |-> FALSE, min_ebay_price |-> None])]

\* INSERT INTO deal_board_pricelog (product_id, price, scraped_at)
add_price_log(db, id, price) ==
    [db EXCEPT !.pricelog = Append(@, [product_id |-> id, price |-> price])]

\* UPDATE deal_board_product SET last_ebay_check = NOW()
update_last_ebay_check(db, id, t) ==
    [db EXCEPT !.product[id].last_ebay_check = Some(t)]

\* UPDATE deal_board_product SET potential_profit, profit_percentage, ...
update_product_profit(db, id, cmp) ==
    [db EXCEPT !.product[id].potential_profit = cmp.potential_profit,
               !.product[id].profit_percentage = cmp.profit_percentage,
               !.product[id].is_profitable = cmp.is_profitable,
               !.product[id].min_ebay_price = cmp.min_ebay_price]

\* DELETE FROM deal_board_ebaylisting WHERE product_id = %s
delete_old_listings(db, id) ==
    [db EXCEPT !.ebaylisting = SelectSeq(@, LAMBDA r : r.product_id # id)]

\* INSERT INTO deal_board_ebaylisting (product_id, title, ..., price, source_url)
insert_listing(db, id, l) ==
    [db EXCEPT !.ebaylisting = Append(@,
        [product_id |-> id, source_url |-> l.source_url, price |-> l.price])]

RECURSIVE InsertListings(_, _, _)
InsertListings(db, id, ls) ==
    IF ls = <<>> THEN db
    ELSE InsertListings(insert_listing(db, id, Head(ls)), id, Tail(ls))

\* EbayListingRepository.update_listings_for_product: delete, then insert each
update_listings_for_product(db, id, ls) ==
    InsertListings(delete_old_listings(db, id), id, ls)

\* mutant of rollback: the connection autocommits, the writes stay
rollback_keeps_writes(committedDb, workingDb) == workingDb

\* conn.rollback(): the transaction's writes are dropped
rollback(committedDb, workingDb) == committedDb

\* conn.commit(): the transaction's writes become the committed state
commit(committedDb, workingDb) == workingDb

----------------------------------------------------------------------------
(* ProductComparison (src/core/models/product_comparison.py) *)

\* ProductComparison(idealo_product=..., ebay_listings=...): field defaults
ProductComparison(idealo_price, ebay_listings) ==
    [idealo_price |-> idealo_price, ebay_listings |-> ebay_listings,
     potential_profit |-> None, profit_percentage |-> None,
     is_profitable |-> FALSE, min_ebay_price |-> None]

\* EbayListing.get_total_price
get_total_price(l) == l.price

\* profit_percentage, in hundredths of a percent (2308 is 23.08 %)
ProfitPercentage(min_price, idealo_price) ==
    ((min_price - idealo_price) * 10000) \div idealo_price

\* mutant of calculate_profitability: the verdict is taken on the percentage
calculate_profitability_by_percentage(c, min_profit_margin) ==
    IF c.ebay_listings = <<>>
    THEN [c EXCEPT !.is_profitable = FALSE]
    ELSE LET min_price == SeqMin([i \in DOMAIN c.ebay_listings |->
                                    get_total_price(c.ebay_listings[i])])
             profit == min_price - c.idealo_price
             percentage == ProfitPercentage(min_price, c.idealo_price)
         IN [c EXCEPT !.min_ebay_price = Some(min_price),
                      !.potential_profit = Some(profit),
                      !.profit_percentage = Some(percentage),
                      !.is_profitable = percentage >= min_profit_margin * 100]

\* mutant of calculate_profitability: only best-match listings are priced
calculate_profitability_best_match_only(c, min_profit_margin) ==
    LET best == SelectSeq(c.ebay_listings, LAMBDA l : l.is_best_match) IN
    IF best = <<>>
    THEN [c EXCEPT !.is_profitable = FALSE]
    ELSE LET min_price == SeqMin([i \in DOMAIN best |-> get_total_price(best[i])])
             profit == min_price - c.idealo_price
         IN [c EXCEPT !.min_ebay_price = Some(min_price),
                      !.potential_profit = Some(profit),
                      !.profit_percentage =
                          Some(ProfitPercentage(min_price, c.idealo_price)),
                      !.is_profitable = profit >= min_profit_margin]

\* ProductComparison.calculate_profitability
calculate_profitability(c, min_profit_margin) ==
    IF c.ebay_listings = <<>>
    THEN [c EXCEPT !.is_profitable = FALSE]
    ELSE LET ebay_prices == [i \in DOMAIN c.ebay_listings |->
                                get_total_price(c.ebay_listings[i])]
             min_price == SeqMin(ebay_prices)
             profit == min_price - c.idealo_price
         IN [c EXCEPT
                !.min_ebay_price = Some(min_price),
                !.potential_profit = Some(profit),
                !.profit_percentage =
                    IF c.idealo_price > 0
                    THEN Some(ProfitPercentage(min_price, c.idealo_price))
                    ELSE @,
                !.is_profitable = profit >= min_profit_margin]

----------------------------------------------------------------------------
(* IdealoProductRepository.process_scraped_products                        *)
(*                                                                         *)
(* The statements of one call are numbered: 1 is deactivate_all_products,  *)
(* product k (1-based) issues find 3k-1, update/insert 3k and              *)
(* add_price_log 3k+1, and the commit is 3n+2.  failAt names the statement *)
(* that raises (0: none does).                                             *)

StmtFind(k) == 3 * k - 1
StmtUpsert(k) == 3 * k
StmtPriceLog(k) == 3 * k + 1
StmtCommit(n) == 3 * n + 2

\* (now_berlin - last_ebay_check_aware).days
days_since_check(t, last_ebay_check) == (t - last_ebay_check) \div TicksPerDay

\* mutant of IsStale: an entity is taken one day late
IsStaleLate(t, last_ebay_check, threshold) ==
    days_since_check(t, last_ebay_check) > threshold + 1

\* days_since_check > ebay_check_threshold_days
IsStale(t, last_ebay_check, threshold) ==
    days_since_check(t, last_ebay_check) > threshold

NeedsEntry(id, name, type) == [product_id |-> id, name |-> name, type |-> type]

\* the body of the for loop, for the k-th product of the batch
ProcessProduct(st, product, k, threshold, t, failAt) ==
    IF failAt = StmtFind(k) THEN [st EXCEPT !.raised = TRUE]
    ELSE
    LET existing == find_by_source_url(st.db, product.source_url) IN
    IF failAt = StmtUpsert(k) THEN [st EXCEPT !.raised = TRUE]
    ELSE
    LET product_id == IF existing # 0 THEN existing ELSE Len(st.db.product) + 1
        db1 == IF existing # 0
               THEN update_product(st.db, existing, product.price)
               ELSE insert_product(st.db, product)
        needs1 ==
            IF existing # 0
            THEN LET last_ebay_check == st.db.product[existing].last_ebay_check
                 IN IF IsNone(last_ebay_check)
                    THEN Append(st.needs, NeedsEntry(product_id, product.name,
                                                     "returning_never_checked"))
                    ELSE IF IsStale(t, Get(last_ebay_check), threshold)
                    THEN Append(st.needs, NeedsEntry(product_id, product.name,
                                                     "returning_stale"))
                    ELSE st.needs
            ELSE Append(st.needs, NeedsEntry(product_id, product.name, "new"))
    IN IF failAt = StmtPriceLog(k)
       THEN [db |-> db1, needs |-> needs1, raised |-> TRUE]
       ELSE [db |-> add_price_log(db1, product_id, product.price),
             needs |-> needs1, raised |-> FALSE]

RECURSIVE ProcessLoop(_, _, _, _, _, _)
ProcessLoop(st, batch, k, threshold, t, failAt) ==
    IF st.raised \/ k > Len(batch) THEN st
    ELSE ProcessLoop(ProcessProduct(st, batch[k], k, threshold, t, failAt),
                     batch, k + 1, threshold, t, failAt)

\* mutant of process_scraped_products: no early return for an empty batch
process_scraped_products_unguarded(committedDb, batch, threshold, t, failAt) ==
    LET st0 == IF failAt = 1
               THEN [db |-> committedDb, needs |-> <<>>, raised |-> TRUE]
               ELSE [db |-> deactivate_all_products(committedDb),
                     needs |-> <<>>, raised |-> FALSE]
        st1 == ProcessLoop(st0, batch, 1, threshold, t, failAt)
    IN IF st1.raised \/ failAt = StmtCommit(Len(batch))
       THEN [db |-> rollback(committedDb, st1.db), needs |-> <<>>, raised |-> TRUE]
       ELSE [db |-> commit(committedDb, st1.db), needs |-> st1.needs,
             raised |-> FALSE]

\* The call on a connection whose transaction starts at committedDb.
\* Result: the committed database afterwards, the returned work-list, and
\* whether the call raised.
process_scraped_products(committedDb, batch, threshold, t, failAt) ==
    IF batch = <<>>
    THEN [db |-> committedDb, needs |-> <<>>, raised |-> FALSE]
    ELSE
    LET st0 == IF failAt = 1
               THEN [db |-> committedDb, needs |-> <<>>, raised |-> TRUE]
               ELSE [db |-> deactivate_all_products(committedDb),
                     needs |-> <<>>, raised |-> FALSE]
        st1 == ProcessLoop(st0, batch, 1, threshold, t, failAt)
    IN IF st1.raised \/ failAt = StmtCommit(Len(batch))
       THEN [db |-> rollback(committedDb, st1.db), needs |-> <<>>, raised |-> TRUE]
       ELSE [db |-> commit(committedDb, st1.db), needs |-> st1.needs,
             raised |-> FALSE]

----------------------------------------------------------------------------
(* EbayScraper.search_products (src/scrapers/ebay/ebay_scraper.py)         *)
(*                                                                         *)
(* A result page is the zero-results marker (div.srp-save-null-search__    *)
(* title present or not) and the <li> children of ul.srp-results in page   *)
(* order, each one of                                                      *)
(*   "ok"       an s-card item that parses into an EbayListing,            *)
(*   "bad"      an s-card item whose extraction fails,                     *)
(*   "divider"  the REWRITE_START element with the fewer-keywords text,    *)
(*   "other"    any other <li>.                                            *)

ItemKinds == {"ok", "bad", "divider", "other"}

Pages == [marker : BOOLEAN, items : SeqsUpTo(ItemKinds, MaxItems)]

NoPage == [marker |-> FALSE, items |-> <<>>]

\* where an attempt raises: nowhere, in sb.open, in _analyze_search_results,
\* or in _get_search_result_elements
ExcStages == {"none", "open", "analyze", "elements"}

IsCard(kind) == kind \in {"ok", "bad"}

\* position of the first divider <li>, 0 when the page has none
FirstDivider(items) ==
    LET ds == {i \in DOMAIN items : items[i] = "divider"}
    IN IF ds = {} THEN 0 ELSE CHOOSE i \in ds : \A j \in ds : i <= j

\* number of s-card items among the first n <li>
CardsBefore(items, n) == Cardinality({i \in DOMAIN items : i < n /\ IsCard(items[i])})

\* the for loop of _analyze_search_results from list position at on
\* (lines 298-322): the divider ends it, an s-card item is counted
RECURSIVE AnalyzeLoop(_, _, _)
AnalyzeLoop(list_items, at, item_count) ==
    IF at > Len(list_items)
    THEN [divider_index |-> -1, item_count |-> item_count]
    ELSE IF list_items[at] = "divider"
    THEN [divider_index |-> item_count, item_count |-> item_count]
    ELSE AnalyzeLoop(list_items, at + 1,
                     IF IsCard(list_items[at]) THEN item_count + 1
                     ELSE item_count)

\* mutant of analyze_search_results: the divider's list position is reported
analyze_search_results_by_position(page) ==
    LET d == FirstDivider(page.items)
        r == AnalyzeLoop(page.items, 1, 0)
    IN [has_no_best_matches |-> page.marker,
        divider_index |-> IF d = 0 THEN -1 ELSE d - 1,
        item_count |-> r.item_count]

\* EbayScraper._analyze_search_results
analyze_search_results(page) ==
    LET r == AnalyzeLoop(page.items, 1, 0)
    IN [has_no_best_matches |-> page.marker,
        divider_index |-> r.divider_index,
        item_count |-> r.item_count]

\* best_match_count of search_products (line 124)
best_match_count(a) ==
    IF a.divider_index # -1 THEN a.divider_index ELSE a.item_count

\* EbayScraper._get_search_result_elements: the s-card <li>, by page position
get_search_result_elements(page) ==
    SelectSeq([i \in DOMAIN page.items |-> i], LAMBDA i : IsCard(page.items[i]))

Take(s, n) == SubSeq(s, 1, IF n < Len(s) THEN n ELSE Len(s))
Slice(s, a, b) == SubSeq(s, a + 1, IF b < Len(s) THEN b ELSE Len(s))

\* EbayParser.parse_search_result_item: a listing, or None
Listing(pos, is_best_match) == [pos |-> pos, is_best_match |-> is_best_match]

\* mutant of parse_elements: the first item that fails ends the parse loop
RECURSIVE parse_elements_stops_at_failure(_, _, _)
parse_elements_stops_at_failure(page, elements, is_best_match) ==
    IF elements = <<>> THEN <<>>
    ELSE IF page.items[Head(elements)] = "ok"
         THEN <<Listing(Head(elements), is_best_match)>>
              \o parse_elements_stops_at_failure(page, Tail(elements),
                                                 is_best_match)
         ELSE <<>>

\* EbayScraper._parse_elements
RECURSIVE parse_elements(_, _, _)
parse_elements(page, elements, is_best_match) ==
    IF elements = <<>> THEN <<>>
    ELSE LET rest == parse_elements(page, Tail(elements), is_best_match)
         IN IF page.items[Head(elements)] = "ok"
            THEN <<Listing(Head(elements), is_best_match)>> \o rest
            ELSE rest

\* mutant of process_no_best_matches: the element list is not cut
process_no_best_matches_uncapped(page, is_filtered) ==
    IF ~is_filtered
    THEN [should_retry |-> TRUE, listings |-> <<>>]
    ELSE [should_retry |-> FALSE,
          listings |-> parse_elements(page, get_search_result_elements(page),
                                      FALSE)]

\* mutant of process_many_best_matches: the element list is not cut
process_many_best_matches_uncapped(page, is_filtered) ==
    IF ~is_filtered
    THEN [should_retry |-> TRUE, listings |-> <<>>]
    ELSE [should_retry |-> FALSE,
          listings |-> parse_elements(page, get_search_result_elements(page),
                                      TRUE)]

\* EbayScraper._process_no_best_matches: (should_retry, listings)
process_no_best_matches(page, is_filtered) ==
    IF ~is_filtered
    THEN [should_retry |-> TRUE, listings |-> <<>>]
    ELSE [should_retry |-> FALSE,
          listings |-> parse_elements(page,
              Take(get_search_result_elements(page), MAX_LEASTMATCH_ITEMS), FALSE)]

\* EbayScraper._process_many_best_matches: (should_retry, listings)
process_many_best_matches(page, is_filtered) ==
    IF ~is_filtered
    THEN [should_retry |-> TRUE, listings |-> <<>>]
    ELSE [should_retry |-> FALSE,
          listings |-> parse_elements(page,
              Take(get_search_result_elements(page), MAX_BESTMATCH_ITEMS), TRUE)]

\* the parse loop of _process_mixed_matches: element i (0-based) is a best
\* match when there is no divider or i < divider_index
RECURSIVE ParseMixed(_, _, _, _)
ParseMixed(page, elements, i, divider_index) ==
    IF i > Len(elements) THEN <<>>
    ELSE LET is_best_match == (divider_index = -1) \/ (i - 1 < divider_index)
             rest == ParseMixed(page, elements, i + 1, divider_index)
         IN IF page.items[elements[i]] = "ok"
            THEN <<Listing(elements[i], is_best_match)>> \o rest
            ELSE rest

\* EbayScraper._process_mixed_matches
process_mixed_matches(page, divider_index) ==
    LET all_listings == ParseMixed(page, get_search_result_elements(page), 1,
                                   divider_index)
    IN IF divider_index # -1
       THEN Slice(all_listings, 0, divider_index)
            \o Slice(all_listings, divider_index,
                     divider_index + MAX_LEASTMATCH_ITEMS)
       ELSE all_listings

\* which branch of search_products the analysis selects
Classify(a) ==
    IF a.has_no_best_matches THEN "NoMatches"
    ELSE IF best_match_count(a) >= MAX_BESTMATCH_ITEMS THEN "TooMany"
    ELSE "Balanced"

\* One iteration of the for loop on the page that sb.open loaded:
\* kind "return" (with listings), "retry" (continue with the filter set) or
\* "exception" (the except clause runs)
AttemptOutcome(page, exc, is_filtered) ==
    IF exc \in {"open", "analyze"}
    THEN [kind |-> "exception", class |-> "Exception", listings |-> <<>>]
    ELSE
    LET a == analyze_search_results(page)
        class == Classify(a)
        r == IF class = "NoMatches" THEN process_no_best_matches(page, is_filtered)
             ELSE IF class = "TooMany" THEN process_many_best_matches(page, is_filtered)
             ELSE [should_retry |-> FALSE,
                   listings |-> process_mixed_matches(page, a.divider_index)]
    IN IF r.should_retry
       THEN [kind |-> "retry", class |-> class, listings |-> <<>>]
       ELSE IF exc = "elements"
       THEN [kind |-> "exception", class |-> class, listings |-> <<>>]
       ELSE [kind |-> "return", class |-> class, listings |-> r.listings]

\* mutant of WithExit: the session is quit before a return only
WithExitOnReturnOnly(next_pc) == next_pc \notin {"returned"}

\* with SB(...) as sb: the session is open while control is inside the
\* block and released when the block is left, by return or by exception
WithExit(next_pc) == next_pc = "loop"

\* mutant of run_ebay_scraper: no except clause, the exception goes on
run_ebay_scraper_reraises(search) ==
    [listings |-> search.listings, raised |-> search.pc = "raised"]

\* run_ebay_scraper on the outcome of search_products (pc "returned" with
\* listings, or "raised"): the list handed to the caller, and whether an
\* exception reaches the caller
run_ebay_scraper(search) ==
    IF search.pc = "raised"
    THEN [listings |-> <<>>, raised |-> FALSE]
    ELSE [listings |-> search.listings, raised |-> FALSE]

NoResult == [listings |-> <<>>, raised |-> FALSE]

SearchInit ==
    /\ ebay_result = NoResult
    /\ sPc = "idle"
    /\ attempt = 0
    /\ is_filtered_by_min_price = FALSE
    /\ session_open = FALSE
    /\ opens = 0
    /\ filtered_opens = 0
    /\ attempts = <<>>
    /\ listings_out = <<>>
    /\ parsed_page = NoPage

\* search_products is called: with SB(...) as sb, is_filtered = False (85-86)
StartSearch ==
    /\ sPc \in {"idle", "done"}
    /\ ebay_result' = NoResult
    /\ sPc' = "loop"
    /\ attempt' = 0
    /\ is_filtered_by_min_price' = FALSE
    /\ session_open' = TRUE
    /\ opens' = 0
    /\ filtered_opens' = 0
    /\ attempts' = <<>>
    /\ listings_out' = <<>>
    /\ parsed_page' = NoPage
    /\ UNCHANGED <<dbVars, selVars, prior, calcVars>>

\* one iteration of `for attempt in range(2)` (88-201), and, when the range
\* is used up by a continue, the fall-through return [] (203-205)
SearchAttempt ==
    /\ sPc = "loop"
    /\ attempt < MaxAttempts
    /\ \E loaded \in Pages, exc \in ExcStages :
        LET o == AttemptOutcome(loaded, exc, is_filtered_by_min_price)
            last_attempt == attempt = 1
            continues == o.kind = "retry" \/ (o.kind = "exception" /\ ~last_attempt)
            range_used_up == attempt + 1 >= MaxAttempts
        IN /\ opens' = opens + 1
           /\ filtered_opens' = filtered_opens
                                + (IF is_filtered_by_min_price THEN 1 ELSE 0)
           /\ attempts' = Append(attempts,
                  [filtered |-> is_filtered_by_min_price, class |-> o.class,
                   kind |-> o.kind])
           /\ is_filtered_by_min_price' =
                  (is_filtered_by_min_price \/ o.kind = "retry")
           /\ attempt' = IF continues THEN attempt + 1 ELSE attempt
           /\ sPc' = IF o.kind = "return" THEN "returned"
                     ELSE IF ~continues THEN "raised"
                     ELSE IF range_used_up THEN "returned"
                     ELSE "loop"
           /\ listings_out' = IF o.kind = "return" THEN o.listings ELSE <<>>
           /\ session_open' = WithExit(sPc')
           /\ parsed_page' = IF o.kind = "return" THEN loaded ELSE NoPage
    /\ UNCHANGED ebay_result
    /\ UNCHANGED <<dbVars, selVars, prior, calcVars>>

\* run_ebay_scraper takes the result or the exception of search_products
FinishSearch ==
    /\ sPc \in {"returned", "raised"}
    /\ sPc' = "done"
    /\ ebay_result' = run_ebay_scraper([pc |-> sPc, listings |-> listings_out])
    /\ UNCHANGED <<attempt, is_filtered_by_min_price, session_open, opens,
                   filtered_opens, attempts, listings_out, parsed_page>>
    /\ UNCHANGED <<dbVars, selVars, prior, calcVars>>

----------------------------------------------------------------------------
(* SelectorManager (src/scrapers/ebay/ebay_selectors.py)                   *)
(*                                                                         *)
(* A snapshot (soup) is the value id(soup) of the object and the set of    *)
(* selectors for which soup.select_one finds an element.  id() is unique   *)
(* among live objects only: a later snapshot may get the id of a dead one. *)

SELECTORS ==
    [price |-> <<".s-card__price", "span.s-item__price", ".s-item__price">>]

Keys == DOMAIN SELECTORS

SoupIds == 1 .. MaxSoupIds

Soups == UNION {[id : SoupIds, key : {k}, matches : SUBSET Range(SELECTORS[k])]
                : k \in Keys}

\* combo_key in self._failed_combinations
IsFailedCombination(failed, soup_id, selector_key, selector) ==
    <<soup_id, selector_key, selector>> \in failed

\* the for loop of try_selectors from candidate i on; st is the manager
RECURSIVE TryEach(_, _, _, _)
TryEach(st, soup, selector_key, i) ==
    LET selectors == SELECTORS[selector_key] IN
    IF i > Len(selectors) THEN [st EXCEPT !.result = None]
    ELSE LET selector == selectors[i] IN
         IF IsFailedCombination(st.failed, soup.id, selector_key, selector)
         THEN TryEach(st, soup, selector_key, i + 1)
         ELSE IF selector \in soup.matches
         THEN [st EXCEPT !.successful[selector_key] = Some(selector),
                         !.result = Some(selector)]
         ELSE TryEach([st EXCEPT !.failed = @ \cup
                                    {<<soup.id, selector_key, selector>>}],
                      soup, selector_key, i + 1)

\* mutant of try_selectors: a cached selector that fails is not deleted
try_selectors_keeps_failed_cache(successful, failed, soup, selector_key) ==
    LET cached == successful[selector_key]
        st0 == [successful |-> successful, failed |-> failed, result |-> None]
    IN IF ~IsNone(cached) /\ Get(cached) \in soup.matches
       THEN [st0 EXCEPT !.result = cached]
       ELSE TryEach(st0, soup, selector_key, 1)

\* SelectorManager.try_selectors; result: the selector whose match is returned
try_selectors(successful, failed, soup, selector_key) ==
    LET cached == successful[selector_key]
        st0 == [successful |-> successful, failed |-> failed, result |-> None]
    IN IF ~IsNone(cached) /\ Get(cached) \in soup.matches
       THEN [st0 EXCEPT !.result = cached]
       ELSE TryEach([st0 EXCEPT !.successful[selector_key] = None],
                    soup, selector_key, 1)

\* prev_*: the try_selectors call before this one in the same session
SelNoOp == [op |-> "none", key |-> "price", id |-> 0, matches |-> {},
            cached_before |-> None, result |-> None,
            prev_op |-> "none", prev_matches |-> {}, prev_result |-> None]

SelInit ==
    /\ successful_selectors = [k \in Keys |-> None]
    /\ failed_combinations = {}
    /\ selLast = SelNoOp

\* a new harvest session: EbayScraper() builds an EbayParser, whose __init__
\* binds the module-level selector_manager
NewSession ==
    /\ selLast' = [SelNoOp EXCEPT !.op = "new_session"]
    /\ UNCHANGED <<successful_selectors, failed_combinations>>
    /\ UNCHANGED <<dbVars, searchVars, prior, calcVars>>

\* self.selector_manager.try_selectors(item_soup, key) on some snapshot
TrySelectors ==
    /\ \E soup \in Soups :
        LET r == try_selectors(successful_selectors, failed_combinations,
                               soup, soup.key)
        IN /\ successful_selectors' = r.successful
           /\ failed_combinations' = r.failed
           /\ selLast' = [op |-> "try", key |-> soup.key, id |-> soup.id,
                          matches |-> soup.matches,
                          cached_before |-> successful_selectors[soup.key],
                          result |-> r.result,
                          prev_op |-> selLast.op,
                          prev_matches |-> selLast.matches,
                          prev_result |-> selLast.result]
    /\ UNCHANGED <<dbVars, searchVars, prior, calcVars>>

----------------------------------------------------------------------------
(* TelegramNotifier / TelegramClient (src/integrations/telegram)           *)
(*                                                                         *)
(* A message is its length in characters and whether it ends with the      *)
(* ellipsis marker "\n\n...".  failure names the step of the notifier that *)
(* raises: none, "build" (build_comparison_data), "format"                 *)
(* (format_ebay_results and the profit header) or "transmit"               *)
(* (requests.post / raise_for_status).                                     *)

Message(n) == [len |-> n, ellipsis |-> FALSE]

NoText == Message(0)

FailureSteps == {"none", "build", "format", "transmit"}

\* message = message[:4090] + "\n\n..." when len(message) > 4096
Truncate(message) ==
    IF message.len > TelegramLimit
    THEN [len |-> (IF message.len < TruncateAt THEN message.len ELSE TruncateAt)
                      + EllipsisLen,
          ellipsis |-> TRUE]
    ELSE message

\* TelegramClient.send_notification
send_notification(configured, message, transport_fails) ==
    IF ~configured
    THEN [returned |-> FALSE, raised |-> FALSE, transport_called |-> FALSE,
          text |-> NoText]
    ELSE IF message.len = 0
    THEN [returned |-> FALSE, raised |-> TRUE, transport_called |-> FALSE,
          text |-> NoText]
    ELSE [returned |-> ~transport_fails, raised |-> transport_fails,
          transport_called |-> TRUE, text |-> Truncate(message)]

NotSent == [returned |-> FALSE, raised |-> FALSE, transport_called |-> FALSE,
            text |-> NoText]

\* mutant of send_profitable_deal_notification: no try/except
send_profitable_deal_notification_uncaught(is_profitable, configured, failure, message) ==
    IF ~is_profitable \/ ~configured THEN NotSent
    ELSE IF failure \in {"build", "format"} THEN [NotSent EXCEPT !.raised = TRUE]
    ELSE send_notification(configured, message, failure = "transmit")

\* mutant of send_profitable_deal_notification: no is_profitable check
send_profitable_deal_notification_unchecked(is_profitable, configured, failure, message) ==
    IF ~configured THEN NotSent
    ELSE IF failure \in {"build", "format"} THEN NotSent
    ELSE [send_notification(configured, message, failure = "transmit")
             EXCEPT !.raised = FALSE]

\* TelegramNotifier.send_profitable_deal_notification
send_profitable_deal_notification(is_profitable, configured, failure, message) ==
    IF ~is_profitable THEN NotSent
    ELSE IF ~configured THEN NotSent
    ELSE IF failure \in {"build", "format"} THEN NotSent
    ELSE LET sent == send_notification(configured, message, failure = "transmit")
         IN [sent EXCEPT !.raised = FALSE]

NoNotify == [op |-> "none", is_profitable |-> FALSE, configured |-> FALSE,
             failure |-> "none", message |-> NoText, result |-> NotSent]

\* the notifier called once, on any comparison and any message
Notify ==
    /\ notified.op = "none"
    /\ \E is_profitable \in BOOLEAN, configured \in BOOLEAN,
          failure \in FailureSteps, n \in MinMessageLen .. MaxMessageLen :
        notified' = [op |-> "send", is_profitable |-> is_profitable,
                     configured |-> configured, failure |-> failure,
                     message |-> Message(n),
                     result |-> send_profitable_deal_notification(
                                    is_profitable, configured, failure, Message(n))]
    /\ UNCHANGED <<dbVars, searchVars, selVars, prior, stale, scored, priced>>

----------------------------------------------------------------------------
(* EbayParser.parse_price and the listing built from it                    *)
(* (src/scrapers/ebay/ebay_parser.py, src/core/models/ebay_listing.py)     *)
(*                                                                         *)
(* A price text is a sequence of characters: two digits, the comma, the    *)
(* dot, a currency sign and a letter.  A price is a whole number of        *)
(* PriceUnit-ths, fine enough for every fraction a text can hold.          *)

Digits == {"0", "5"}
PriceChars == Digits \cup {",", ".", "$", "x"}
PriceTexts == SeqsUpTo(PriceChars, MaxPriceLen)

DigitValue(c) == IF c = "5" THEN 5 ELSE 0

RECURSIVE Pow10(_)
Pow10(n) == IF n = 0 THEN 1 ELSE 10 * Pow10(n - 1)

\* the value 1.0
PriceUnit == Pow10(MaxPriceLen - 1)

Count(text, ch) == Cardinality({i \in DOMAIN text : text[i] = ch})

\* text.replace(ch, '')
Remove(text, ch) == SelectSeq(text, LAMBDA c : c # ch)

\* text.replace(a, b)
Replace(text, a, b) == [i \in DOMAIN text |-> IF text[i] = a THEN b ELSE text[i]]

\* position of the only comma of a text
CommaPos(text) == CHOOSE i \in DOMAIN text : text[i] = ","

\* the cleaning steps of parse_price (lines 43-65)
CleanPrice(price_text) ==
    LET cleaned == Remove(price_text, "$")
    IN IF Count(cleaned, ",") > 0 /\ Count(cleaned, ".") > 0
       THEN Replace(Remove(cleaned, "."), ",", ".")
       ELSE IF Count(cleaned, ",") = 1
       THEN IF Len(cleaned) - CommaPos(cleaned) <= 2
            THEN Replace(cleaned, ",", ".")
            ELSE Remove(cleaned, ",")
       ELSE Remove(cleaned, ",")

\* float(cleaned) does not raise ValueError
IsFloat(cleaned) ==
    /\ \A i \in DOMAIN cleaned : cleaned[i] \in Digits \cup {"."}
    /\ Count(cleaned, ".") <= 1
    /\ \E i \in DOMAIN cleaned : cleaned[i] \in Digits

RECURSIVE IntOf(_)
IntOf(digits) ==
    IF digits = <<>> THEN 0
    ELSE IntOf(SubSeq(digits, 1, Len(digits) - 1)) * 10
         + DigitValue(digits[Len(digits)])

\* float(cleaned)
FloatOf(cleaned) ==
    IF Count(cleaned, ".") = 0 THEN IntOf(cleaned) * PriceUnit
    ELSE LET dot == CHOOSE i \in DOMAIN cleaned : cleaned[i] = "."
             frac == SubSeq(cleaned, dot + 1, Len(cleaned))
         IN IntOf(SubSeq(cleaned, 1, dot - 1)) * PriceUnit
            + IntOf(frac) * Pow10(MaxPriceLen - 1 - Len(frac))

\* EbayParser.parse_price: the float returned; None is never returned
parse_price(price_text) ==
    LET cleaned == CleanPrice(price_text)
    IN IF IsFloat(cleaned) THEN Some(FloatOf(cleaned)) ELSE Some(0)

\* EbayListing(price=...): Field(gt=0, decimal_places=2) and validate_price
ValidPrice(price) ==
    /\ price > 0
    /\ price % (PriceUnit \div 100) = 0
    /\ price <= 1000000 * PriceUnit

\* EbayParser.parse_search_result_item on an item whose title and url
\* extract: the listing, or None
parse_search_result_item(price_text) ==
    LET price == parse_price(price_text)
    IN IF ~IsNone(price) /\ ValidPrice(Get(price))
       THEN Some([price |-> Get(price)])
       ELSE None

NoPriced == [op |-> "none", price_text |-> <<>>, price |-> None,
             listing |-> None]

\* one result item parsed, whatever its price text
ParseItem ==
    /\ priced.op = "none"
    /\ \E price_text \in PriceTexts :
        priced' = [op |-> "parse", price_text |-> price_text,
                   price |-> parse_price(price_text),
                   listing |-> parse_search_result_item(price_text)]
    /\ UNCHANGED <<dbVars, searchVars, selVars, prior, stale, scored, notified>>

----------------------------------------------------------------------------
(* save_to_database (src/scrapers/main.py) *)

\* products_by_name = {p.name: p for p in products}; .get(name)
products_by_name(batch, name) ==
    LET hits == {i \in DOMAIN batch : batch[i].name = name}
    IN batch[CHOOSE i \in hits : \A j \in hits : j <= i]

\* The body of the comparison loop for one work-list entry, given what
\* compare_product_on_ebay returned, on the transaction's view of the database
CompareBody(db, batch, product_info, ebay_listings, t) ==
    LET idealo_product == products_by_name(batch, product_info.name)
    IN IF ebay_listings # <<>>
       THEN LET comparison == calculate_profitability(
                    ProductComparison(idealo_product.price, ebay_listings),
                    DefaultMinProfitMargin)
                db1 == update_listings_for_product(
                    db, product_info.product_id, ebay_listings)
            IN update_product_profit(db1, product_info.product_id, comparison)
       ELSE update_last_ebay_check(db, product_info.product_id, t)

\* comparison.calculate_profitability() of one loop iteration
CompareResult(batch, product_info, ebay_listings) ==
    calculate_profitability(
        ProductComparison(products_by_name(batch, product_info.name).price,
                          ebay_listings),
        DefaultMinProfitMargin)

\* the alert message of the comparison loop
LoopMessage == Message(MinMessageLen)

NoOp ==
    [op |-> "none", raised |-> FALSE, pre |-> EmptyDb, batch |-> <<>>,
     needs |-> <<>>, fail_at |-> 0, product_id |-> 0, listings |-> <<>>,
     search_failed |-> FALSE, db_failed |-> FALSE, pos |-> 0,
     notifier_called |-> FALSE, configured |-> FALSE, failure |-> "none",
     notify |-> NotSent]

NoPrior == [ok |-> FALSE, batch |-> <<>>]

NoStale == [op |-> "none", threshold |-> 1, t |-> 0, last_ebay_check |-> 0,
            listed |-> FALSE]

\* the comparisons scored: reference prices, listings, margins
RefPrices == {10, 100}
ScorePrices == {25, 110, 130, 150, 200}
Margins == {20, DefaultMinProfitMargin}
ScoreListings == [source_url : {"e"}, price : ScorePrices, is_best_match : BOOLEAN]

NoScore == [op |-> "none", cmp |-> ProductComparison(100, <<>>),
            before |-> ProductComparison(100, <<>>),
            margin |-> DefaultMinProfitMargin]

\* the clock values tried for the staleness decision
MaxClock == (MaxThreshold + 2) * TicksPerDay

\* a catalog of one product that was last checked at last_ebay_check
CheckedCatalog(p, last_ebay_check) ==
    update_last_ebay_check(insert_product(EmptyDb, p), 1, last_ebay_check)

Init ==
    /\ now = 0
    /\ committed = EmptyDb
    /\ working = EmptyDb
    /\ pc = "idle"
    /\ products = <<>>
    /\ worklist = <<>>
    /\ idx = 1
    /\ runs = 0
    /\ last = NoOp
    /\ alerts = <<>>
    /\ SearchInit
    /\ SelInit
    /\ prior = NoPrior
    /\ stale = NoStale
    /\ scored = NoScore
    /\ notified = NoNotify
    /\ priced = NoPriced

\* time passes between two runs (the clock starts at the first run)
Tick ==
    /\ pc = "idle"
    /\ 0 < runs /\ runs < MaxRuns
    /\ now < MaxTime
    /\ now' = now + 1
    /\ last' = [NoOp EXCEPT !.op = "tick"]
    /\ UNCHANGED <<committed, working, pc, products, worklist, idx, runs,
                   alerts>>
    /\ UNCHANGED <<searchVars, selVars, prior, calcVars>>

\* save_to_database up to the start of the comparison loop: a connection
\* is opened and process_scraped_products runs on it (lines 167-204)
Reconcile ==
    /\ pc = "idle"
    /\ runs < MaxRuns
    /\ \E batch \in Batches, failAt \in 0 .. StmtCommit(MaxBatch) :
        /\ failAt <= StmtCommit(Len(batch))
        /\ batch = <<>> => failAt = 0
        /\ LET r == process_scraped_products(committed, batch, ThresholdDays,
                                             now, failAt)
           IN /\ committed' = r.db
              /\ working' = r.db
              /\ worklist' = r.needs
              /\ products' = IF r.raised THEN <<>> ELSE batch
              /\ pc' = IF r.needs = <<>> THEN "idle" ELSE "compare"
              /\ last' = [NoOp EXCEPT !.op = "reconcile", !.raised = r.raised,
                                      !.pre = committed, !.batch = batch,
                                      !.needs = r.needs, !.fail_at = failAt]
    /\ idx' = 1
    /\ runs' = runs + 1
    /\ alerts' = <<>>
    /\ UNCHANGED now
    /\ UNCHANGED <<searchVars, selVars, prior, calcVars>>

\* how a search_products call can end: returned with listings, or raised
SearchOutcomes ==
    {[pc |-> "returned", listings |-> l] : l \in ListingRuns}
        \cup {[pc |-> "raised", listings |-> <<>>]}

\* one iteration of the comparison loop (lines 205-284); search: how the
\* search_products call inside run_ebay_scraper ended; db_fails: a statement
\* of this iteration raises; configured, failure: the alert transport's
\* configuration and the step of the notifier that raises.  An exception in
\* the iteration ends save_to_database in its except clause with the
\* connection closed uncommitted
CompareStep ==
    /\ pc = "compare"
    /\ idx <= Len(worklist)
    /\ \E search \in SearchOutcomes, db_fails \in BOOLEAN,
          configured \in BOOLEAN, failure \in FailureSteps :
        /\ LET product_info == worklist[idx]
               r == run_ebay_scraper(search)
               ebay_listings == r.listings
               saved == ~r.raised /\ ~db_fails
               notifies ==
                   /\ saved
                   /\ ebay_listings # <<>>
                   /\ CompareResult(products, product_info,
                                    ebay_listings).is_profitable
               n == IF notifies
                    THEN send_profitable_deal_notification(
                             TRUE, configured, failure, LoopMessage)
                    ELSE NotSent
               aborted == r.raised \/ db_fails \/ n.raised
           IN \* the notifier's inputs matter only when it is called
              /\ notifies \/ (~configured /\ failure = "none")
              /\ last' = [NoOp EXCEPT !.op = "compare", !.raised = aborted,
                                      !.pre = working, !.batch = products,
                                      !.needs = worklist,
                                      !.product_id = product_info.product_id,
                                      !.listings = ebay_listings,
                                      !.search_failed = search.pc = "raised",
                                      !.db_failed = db_fails,
                                      !.pos = idx,
                                      !.notifier_called = notifies,
                                      !.configured = configured,
                                      !.failure = failure,
                                      !.notify = n]
              /\ alerts' = IF n.returned
                           THEN Append(alerts, product_info.product_id)
                           ELSE alerts
              /\ IF aborted
                 THEN /\ working' = rollback(committed, working)
                      /\ pc' = "idle"
                      /\ worklist' = <<>>
                      /\ products' = <<>>
                      /\ idx' = 1
                 ELSE /\ working' = CompareBody(working, products, product_info,
                                                ebay_listings, now)
                      /\ idx' = idx + 1
                      /\ UNCHANGED <<pc, worklist, products>>
    /\ UNCHANGED <<now, committed, runs>>
    /\ UNCHANGED <<searchVars, selVars, prior, calcVars>>

\* the loop is over: conn.commit() (line 296) and the connection closes
CommitRun ==
    /\ pc = "compare"
    /\ idx > Len(worklist)
    /\ \E commit_fails \in BOOLEAN :
        /\ committed' = IF commit_fails THEN committed
                        ELSE commit(committed, working)
        /\ working' = committed'
        /\ last' = [NoOp EXCEPT !.op = "commit", !.raised = commit_fails,
                                !.pre = committed, !.batch = products]
    /\ pc' = "idle"
    /\ worklist' = <<>>
    /\ products' = <<>>
    /\ idx' = 1
    /\ UNCHANGED <<now, runs, alerts>>
    /\ UNCHANGED <<searchVars, selVars, prior, calcVars>>

\* IdealoProductRepository.process_scraped_products called on a connection
\* of its own, one call after the other; the returned work-list is not used
ReconcileCall ==
    /\ pc = "idle"
    /\ runs < MaxCalls
    /\ \E batch \in Batches, failAt \in 0 .. StmtCommit(MaxBatch) :
        /\ failAt <= StmtCommit(Len(batch))
        /\ batch = <<>> => failAt = 0
        /\ LET r == process_scraped_products(committed, batch, ThresholdDays,
                                             now, failAt)
           IN /\ committed' = r.db
              /\ working' = r.db
              /\ last' = [NoOp EXCEPT !.op = "reconcile", !.raised = r.raised,
                                      !.pre = committed, !.batch = batch,
                                      !.needs = r.needs, !.fail_at = failAt]
    /\ prior' = [ok |-> last.op = "reconcile" /\ ~last.raised,
                 batch |-> last.batch]
    /\ runs' = runs + 1
    /\ UNCHANGED <<now, pc, products, worklist, idx, alerts>>
    /\ UNCHANGED <<searchVars, selVars, calcVars>>

\* process_scraped_products at time t with a threshold, on a catalog whose
\* one entity is in the batch and was last checked at last_ebay_check
StaleCheck ==
    /\ \E threshold \in 1 .. MaxThreshold, t \in 0 .. MaxClock, p \in FreshPool :
        \E last_ebay_check \in 0 .. t :
            LET r == process_scraped_products(
                         CheckedCatalog(p, last_ebay_check), <<p>>, threshold, t, 0)
            IN stale' = [op |-> "check", threshold |-> threshold, t |-> t,
                         last_ebay_check |-> last_ebay_check,
                         listed |-> \E k \in DOMAIN r.needs :
                                       r.needs[k].product_id = 1]
    /\ UNCHANGED <<dbVars, searchVars, selVars, prior, scored, notified, priced>>

\* comparison = ProductComparison(idealo_product=..., ebay_listings=...)
NewComparison ==
    /\ scored.op = "none"
    /\ \E idealo_price \in RefPrices, ls \in SeqsUpTo(ScoreListings, MaxListings) :
        scored' = [scored EXCEPT !.op = "new",
                                 !.cmp = ProductComparison(idealo_price, ls),
                                 !.before = ProductComparison(idealo_price, ls)]
    /\ UNCHANGED <<dbVars, searchVars, selVars, prior, stale, notified, priced>>

\* comparison.calculate_profitability(min_profit_margin), on a new object or
\* on one whose listings were emptied after an earlier scoring
Score ==
    /\ scored.op \in {"new", "cleared"}
    /\ \E min_profit_margin \in Margins :
        scored' = [op |-> IF scored.op = "new" THEN "scored" ELSE "rescored",
                   cmp |-> calculate_profitability(scored.cmp, min_profit_margin),
                   before |-> scored.cmp,
                   margin |-> min_profit_margin]
    /\ UNCHANGED <<dbVars, searchVars, selVars, prior, stale, notified, priced>>

\* comparison.ebay_listings = [] on a scored object (the model is mutable)
ClearListings ==
    /\ scored.op = "scored"
    /\ scored' = [scored EXCEPT !.op = "cleared", !.cmp.ebay_listings = <<>>]
    /\ UNCHANGED <<dbVars, searchVars, selVars, prior, stale, notified, priced>>

Next == Tick \/ Reconcile \/ CompareStep \/ CommitRun

Spec == Init /\ [][Next]_vars

\* search_products on its own, called again and again
SearchNext == StartSearch \/ SearchAttempt \/ FinishSearch

SearchSpec == Init /\ [][SearchNext]_vars

\* the for loop runs on: every iteration that is due is executed
SearchFairSpec == SearchSpec /\ WF_vars(SearchAttempt)

\* the repository on its own: reconcile after reconcile
ReconcileSpec == Init /\ [][ReconcileCall]_vars

\* the staleness decision of the reconcile over thresholds and clock values
StaleSpec == Init /\ [][StaleCheck]_vars

\* a ProductComparison object over its life
ScoreNext == NewComparison \/ Score \/ ClearListings

ScoreSpec == Init /\ [][ScoreNext]_vars

\* the parser on one item
PriceSpec == Init /\ [][ParseItem]_vars

\* the notifier on its own
NotifySpec == Init /\ [][Notify]_vars

\* the selector manager over the sessions of one process
SelNext == NewSession \/ TrySelectors

SelSpec == Init /\ [][SelNext]_vars

----------------------------------------------------------------------------
(* Properties of the reconciliation / comparison pipeline *)

Urls(batch) == {batch[i].source_url : i \in DOMAIN batch}

\* rows of deal_board_ebaylisting stored for a product, as a set
StoredListings(db, id) ==
    {[source_url |-> r.source_url, price |-> r.price] :
        r \in {x \in Range(db.ebaylisting) : x.product_id = id}}

ReturnedListings(ls) ==
    {[source_url |-> l.source_url, price |-> l.price] : l \in Range(ls)}

ComparedOk == last.op = "compare" /\ ~last.raised
ReconciledOk == last.op = "reconcile" /\ ~last.raised

\* C1 (as claimed): once the comparison loop has processed a work-list entity,
\* the entity's last_ebay_check is the time of the run, whether the search
\* returned listings or none.
C1_LastCheckAlwaysRecorded ==
    ComparedOk =>
        working.product[last.product_id].last_ebay_check = Some(now)

\* C4: a process_scraped_products call in which a statement fails leaves the
\* catalog, the is_active flags and the price history as they were before the
\* call, raises, and hands no work-list on; nothing partial is committed.
C4_FailedReconcileRollsBack ==
    (last.op = "reconcile" /\ last.fail_at # 0) =>
        /\ last.raised
        /\ committed = last.pre
        /\ working = last.pre
        /\ worklist = <<>>
        /\ pc = "idle"

\* C4 witness: a reconcile failed after it had deactivated an active catalog
\* entry and written at least the first product of the batch.
C4_Witness ==
    /\ last.op = "reconcile"
    /\ last.fail_at >= StmtPriceLog(1)
    /\ last.raised
    /\ \E i \in DOMAIN last.pre.product : last.pre.product[i].is_active
    /\ last.pre.pricelog # <<>>

\* C5 (as claimed): after every successful reconcile(batch) an entity is
\* active exactly when its source_url occurs in batch.
C5_ActiveIffInBatch ==
    ReconciledOk =>
        \A i \in DOMAIN committed.product :
            committed.product[i].is_active
                <=> committed.product[i].source_url \in Urls(last.batch)

\* C5 (amended): after every successful reconcile of a non-empty batch an
\* entity is active exactly when its source_url occurs in batch.
C5_ActiveIffInNonEmptyBatch ==
    (ReconciledOk /\ last.batch # <<>>) =>
        \A i \in DOMAIN committed.product :
            committed.product[i].is_active
                <=> committed.product[i].source_url \in Urls(last.batch)

\* C5 witness: a successful reconcile of a non-empty batch that left one
\* previously active entity out and kept another.
C5_Witness ==
    /\ ReconciledOk
    /\ last.batch # <<>>
    /\ \E i \in DOMAIN last.pre.product :
        /\ last.pre.product[i].is_active
        /\ last.pre.product[i].source_url \notin Urls(last.batch)
        /\ ~committed.product[i].is_active
    /\ \E i \in DOMAIN last.pre.product :
        /\ last.pre.product[i].source_url \in Urls(last.batch)
        /\ committed.product[i].is_active

\* C6 (as claimed): after a comparison run for an entity the stored listings
\* of the entity are exactly the listings the run returned.
C6_StoredListingsAreReturned ==
    ComparedOk =>
        StoredListings(working, last.product_id) = ReturnedListings(last.listings)

\* C7 (as claimed): in every committed state, an entity with stored listings
\* has potential_profit = min_ebay_price - price, and an entity without has
\* null profit fields and is_profitable false.
C7_ProfitSnapshotConsistent ==
    \A i \in DOMAIN committed.product :
        LET r == committed.product[i] IN
        IF StoredListings(committed, i) # {}
        THEN /\ ~IsNone(r.min_ebay_price)
             /\ r.potential_profit = Some(Get(r.min_ebay_price) - r.price)
        ELSE /\ IsNone(r.potential_profit)
             /\ IsNone(r.profit_percentage)
             /\ IsNone(r.min_ebay_price)
             /\ ~r.is_profitable

\* C8 (as claimed): an entity processed by reconcile is on the work-list
\* exactly when it was inserted by this call, or was never checked, or its
\* last check lies more than the threshold (in exact elapsed time) before now.
C8_WorklistIffNewNullOrElapsed ==
    ReconciledOk =>
        \A u \in Urls(last.batch) :
            LET old == find_by_source_url(last.pre, u)
                id == find_by_source_url(committed, u)
                listed == \E k \in DOMAIN last.needs : last.needs[k].product_id = id
            IN listed <=>
                \/ old = 0
                \/ IsNone(last.pre.product[old].last_ebay_check)
                \/ now - Get(last.pre.product[old].last_ebay_check)
                       > ThresholdDays * TicksPerDay

----------------------------------------------------------------------------
(* Properties of search_products *)

NeedsFilter(a) == ~a.filtered /\ a.class \in {"NoMatches", "TooMany"}

SearchBudget ==
    /\ opens <= 2
    /\ filtered_opens <= 1
    /\ Len(attempts) = opens
    /\ \A i \in DOMAIN attempts :
        attempts[i].filtered => (i > 1 /\ NeedsFilter(attempts[i - 1]))
    /\ sPc = "loop" => opens < 2

\* C2: in every search_products call the page is opened at most 2 times, the
\* filtered query is issued at most once and only right after an unfiltered
\* attempt classified NoMatches or TooMany (never after Balanced), and the
\* call terminates: the loop is left after at most 2 opens, by a return or
\* by raising.
C2_BoundedRetries ==
    /\ []SearchBudget
    /\ (sPc = "loop") ~> (sPc \in {"returned", "raised"})

\* C2 witness: a call that opened the page twice, the second time filtered,
\* and has returned.
C2_Witness ==
    /\ sPc = "returned"
    /\ opens = 2
    /\ filtered_opens = 1
    /\ attempts[1].class = "TooMany"

\* C3 (as claimed): when search_products has returned a result, every
\* unfiltered attempt classified NoMatches or TooMany was followed by exactly
\* one filtered re-issue.
C3_UnfilteredMissAlwaysReissued ==
    sPc = "returned" =>
        \A i \in DOMAIN attempts :
            NeedsFilter(attempts[i]) =>
                /\ filtered_opens = 1
                /\ i < Len(attempts)
                /\ attempts[i + 1].filtered

----------------------------------------------------------------------------
(* Properties of the selector manager *)

\* the first candidate of the key's list, in list order, that matches
FirstMatching(selector_key, matches) ==
    LET selectors == SELECTORS[selector_key]
        hits == {i \in DOMAIN selectors : selectors[i] \in matches}
    IN IF hits = {} THEN None
       ELSE Some(selectors[CHOOSE i \in hits : \A j \in hits : i <= j])

CacheMissed ==
    /\ selLast.op = "try"
    /\ \/ IsNone(selLast.cached_before)
       \/ Get(selLast.cached_before) \notin selLast.matches

\* C9 (as claimed): on a cache miss try_selectors returns the match of the
\* first candidate in list order that matches the snapshot (None only when
\* none matches), whatever was recorded as failed earlier, and caches it.
C9_FirstMatchingCandidateWins ==
    CacheMissed =>
        /\ selLast.result = FirstMatching(selLast.key, selLast.matches)
        /\ successful_selectors[selLast.key] = selLast.result

\* C10 (as claimed): at the start of every new session the selector cache is
\* empty: no successful selector and no failed combination of an earlier
\* session is left.
C10_CacheEmptyAtSessionStart ==
    selLast.op = "new_session" =>
        /\ \A k \in Keys : IsNone(successful_selectors[k])
        /\ failed_combinations = {}

CandA == SELECTORS["price"][1]
CandB == SELECTORS["price"][2]

\* C11 (as claimed): a resolve on a snapshot matching only B returned B; the
\* next resolve of the session, on a snapshot where B does not match but A
\* does, returns A's match and leaves A cached.
C11_RescanFromTopAfterCacheMiss ==
    ( /\ selLast.op = "try"
      /\ selLast.prev_op = "try"
      /\ selLast.prev_matches = {CandB}
      /\ selLast.prev_result = Some(CandB)
      /\ selLast.cached_before = Some(CandB)
      /\ CandB \notin selLast.matches
      /\ CandA \in selLast.matches )
    => /\ selLast.result = Some(CandA)
       /\ successful_selectors["price"] = Some(CandA)

----------------------------------------------------------------------------
(* Properties of run_ebay_scraper and of the transport retry *)

LastAttempt == attempts[Len(attempts)]

\* the search_products call ended in its except clause (failed) or fell out
\* of the loop after a continue (exhausted)
SearchFailedOrExhausted ==
    attempts # <<>> /\ LastAttempt.kind \in {"exception", "retry"}

\* C12 (as claimed): what run_ebay_scraper hands to the pipeline tells a
\* search that succeeded without matches from one that failed or was
\* exhausted: an empty list without a failure indication comes from a
\* successful search only.
C12_EmptyResultOnlyFromSuccessfulSearch ==
    (sPc = "done" /\ ebay_result.listings = <<>> /\ ~ebay_result.raised)
        => ~SearchFailedOrExhausted

\* C13 (as claimed): when the call has ended, every attempt that failed with
\* an exception and was not itself the retry of a failed attempt was followed
\* by one more attempt, be it the unfiltered query or the filtered re-issue.
C13_EveryFailedAttemptRetried ==
    sPc \in {"returned", "raised"} =>
        \A i \in DOMAIN attempts :
            ( /\ attempts[i].kind = "exception"
              /\ (i = 1 \/ attempts[i - 1].kind # "exception") )
            => i < Len(attempts)

----------------------------------------------------------------------------
(* A failed search inside the comparison loop *)

\* a search_products call that ended on a failing last attempt has raised
FailedLastAttemptRaises ==
    ( /\ sPc \in {"returned", "raised"}
      /\ Len(attempts) = MaxAttempts
      /\ LastAttempt.kind = "exception" )
    => sPc = "raised"

\* C14: a search_products call whose last attempt fails raises, and a raised
\* search does not end the comparison loop: unless a database statement of
\* the iteration fails, the loop stands at the next work-list entity with
\* the work-list and the fresh batch as they were.
C14_SearchFailureConfinedToQuery ==
    /\ FailedLastAttemptRaises
    /\ (last.op = "compare" /\ last.search_failed /\ ~last.db_failed) =>
        /\ ~last.raised
        /\ pc = "compare"
        /\ worklist = last.needs
        /\ products = last.batch
        /\ idx = last.pos + 1

\* C14 witness: the search for the first of two work-list entities raised
\* and the loop stands at the second.
C14_Witness ==
    /\ last.op = "compare"
    /\ last.search_failed
    /\ ~last.db_failed
    /\ last.pos = 1
    /\ idx = 2
    /\ Len(worklist) = 2
    /\ pc = "compare"

----------------------------------------------------------------------------
(* Properties of the accepted result (C15, C16, C17) *)

\* the call returned the listings parsed on an attempt of the given class
Accepted(class) ==
    /\ sPc = "returned"
    /\ attempts # <<>>
    /\ LastAttempt.kind = "return"
    /\ LastAttempt.class = class

\* the <li> at page position p lies before the divider (or there is none)
IsPrimary(page, p) ==
    FirstDivider(page.items) = 0 \/ p < FirstDivider(page.items)

HighListings == {i \in DOMAIN listings_out : listings_out[i].is_best_match}
LowListings == {i \in DOMAIN listings_out : ~listings_out[i].is_best_match}

\* C15 (as claimed): a Balanced result holds every primary item that
\* extracts, tagged High, and at most MAX_LEASTMATCH_ITEMS items tagged Low,
\* each of them a post-divider item, also when items fail to extract.
C15_BalancedHighAllLowCapped ==
    Accepted("Balanced") =>
        /\ \A p \in DOMAIN parsed_page.items :
            (parsed_page.items[p] = "ok" /\ IsPrimary(parsed_page, p))
                => \E i \in HighListings : listings_out[i].pos = p
        /\ Cardinality(LowListings) <= MAX_LEASTMATCH_ITEMS
        /\ \A i \in LowListings : ~IsPrimary(parsed_page, listings_out[i].pos)
        /\ \A i \in HighListings : IsPrimary(parsed_page, listings_out[i].pos)

\* the call returned on a filtered attempt of the given class
ReturnedOnFiltered(class) ==
    /\ sPc = "returned"
    /\ attempts # <<>>
    /\ LastAttempt.filtered
    /\ LastAttempt.class = class

\* C16: a filtered attempt classified NoMatches is accepted (it never asks
\* for another retry) and returns at most MAX_LEASTMATCH_ITEMS listings, all
\* tagged Low.
C16_FilteredNoMatchesAcceptedLow ==
    ReturnedOnFiltered("NoMatches") =>
        /\ LastAttempt.kind = "return"
        /\ Len(listings_out) <= MAX_LEASTMATCH_ITEMS
        /\ HighListings = {}

\* C16 witness: accepted on a filtered NoMatches page that holds more
\* extractable items than the cap; the cap is reached.
C16_Witness ==
    /\ ReturnedOnFiltered("NoMatches")
    /\ LastAttempt.kind = "return"
    /\ Len(listings_out) = MAX_LEASTMATCH_ITEMS
    /\ Cardinality({p \in DOMAIN parsed_page.items : parsed_page.items[p] = "ok"})
           > MAX_LEASTMATCH_ITEMS

\* C17: a filtered attempt classified TooMany is accepted and returns at most
\* MAX_BESTMATCH_ITEMS listings, all tagged High and all of them primary
\* (pre-divider) items.
C17_FilteredTooManyAcceptedHigh ==
    ReturnedOnFiltered("TooMany") =>
        /\ LastAttempt.kind = "return"
        /\ Len(listings_out) <= MAX_BESTMATCH_ITEMS
        /\ LowListings = {}
        /\ \A i \in HighListings : IsPrimary(parsed_page, listings_out[i].pos)

\* C17 witness: accepted on a filtered TooMany page with a divider and an
\* extractable item after it; the cap is reached.
C17_Witness ==
    /\ ReturnedOnFiltered("TooMany")
    /\ LastAttempt.kind = "return"
    /\ Len(listings_out) = MAX_BESTMATCH_ITEMS
    /\ FirstDivider(parsed_page.items) # 0
    /\ \E p \in DOMAIN parsed_page.items :
        parsed_page.items[p] = "ok" /\ ~IsPrimary(parsed_page, p)

----------------------------------------------------------------------------
(* Identity of tracked entities and the price history (C18, C19, C20) *)

UniqueSourceUrls(db) ==
    \A i, j \in DOMAIN db.product :
        db.product[i].source_url = db.product[j].source_url => i = j

\* every row keeps its id (its position) and its source_url over a step
IdsKept ==
    \A i \in DOMAIN committed.product :
        /\ i \in DOMAIN committed'.product
        /\ committed'.product[i].source_url = committed.product[i].source_url

\* C18: after any sequence of reconcile calls, also with batches that name
\* a source_url more than once, no two product rows share a source_url, and
\* a row keeps the id of its first insert.
C18_SourceUrlIdentifiesEntity ==
    /\ [](UniqueSourceUrls(committed) /\ UniqueSourceUrls(working))
    /\ [][IdsKept]_vars

\* C18 witness: a committed reconcile of a batch that names a new source_url
\* twice inserted one row for it.
C18_Witness ==
    /\ ReconciledOk
    /\ Len(last.batch) = 2
    /\ last.batch[1].source_url = last.batch[2].source_url
    /\ find_by_source_url(last.pre, last.batch[1].source_url) = 0
    /\ last.pre.product # <<>>
    /\ Len(committed.product) = Len(last.pre.product) + 1

\* the price history rows a reconcile appended
NewPriceLog == SubSeq(committed.pricelog, Len(last.pre.pricelog) + 1,
                      Len(committed.pricelog))

PriceLogKept ==
    /\ Len(committed.pricelog) >= Len(last.pre.pricelog)
    /\ SubSeq(committed.pricelog, 1, Len(last.pre.pricelog)) = last.pre.pricelog

\* C19 (as claimed): a committed reconcile appends exactly one price history
\* row per entity of the fresh batch, with the entity's id and a fresh price
\* of it, and leaves the existing rows as they were.
C19_OnePriceLogPerEntity ==
    ReconciledOk =>
        /\ PriceLogKept
        /\ \A u \in Urls(last.batch) :
            Cardinality({k \in DOMAIN NewPriceLog :
                NewPriceLog[k].product_id = find_by_source_url(committed, u)}) = 1
        /\ \A k \in DOMAIN NewPriceLog :
            \E i \in DOMAIN last.batch :
                /\ NewPriceLog[k].product_id
                       = find_by_source_url(committed, last.batch[i].source_url)
                /\ NewPriceLog[k].price = last.batch[i].price

\* C20 (as claimed): a committed reconcile that directly follows a committed
\* reconcile of the same batch leaves the product rows and the stored
\* listings as the first call left them and appends exactly one price
\* history row per entity of the batch.
C20_ReconcileTwiceSameBatch ==
    (ReconciledOk /\ prior.ok /\ prior.batch = last.batch) =>
        /\ committed.product = last.pre.product
        /\ committed.ebaylisting = last.pre.ebaylisting
        /\ PriceLogKept
        /\ \A u \in Urls(last.batch) :
            Cardinality({k \in DOMAIN NewPriceLog :
                NewPriceLog[k].product_id = find_by_source_url(committed, u)}) = 1
        /\ Len(NewPriceLog) = Cardinality(Urls(last.batch))

----------------------------------------------------------------------------
(* Staleness selection (C21) *)

\* C21: for every positive threshold, an entity last checked threshold + 1
\* days before now is on the work-list, and one last checked threshold - 1
\* days before now is not.
C21_StalenessMonotonic ==
    stale.op = "check" =>
        /\ (stale.t - stale.last_ebay_check = (stale.threshold + 1) * TicksPerDay)
               => stale.listed
        /\ (stale.t - stale.last_ebay_check = (stale.threshold - 1) * TicksPerDay)
               => ~stale.listed

\* C21 witness: threshold 2, last check 3 days ago, the entity is listed.
C21_Witness ==
    /\ stale.op = "check"
    /\ stale.threshold = 2
    /\ stale.t - stale.last_ebay_check = 3 * TicksPerDay
    /\ stale.listed

----------------------------------------------------------------------------
(* Profitability scoring (C22 .. C25) *)

\* calculate_profitability has just run on a non-empty listing set
ScoredNonEmpty ==
    scored.op \in {"scored", "rescored"} /\ scored.before.ebay_listings # <<>>

ListingPrices(ls) == {ls[i].price : i \in DOMAIN ls}

\* the smallest price over all listings, whatever their tier
MinOverAll(ls) ==
    CHOOSE m \in ListingPrices(ls) : \A q \in ListingPrices(ls) : m <= q

C23_MinOverAllTiers ==
    ScoredNonEmpty =>
        /\ scored.cmp.min_ebay_price = Some(MinOverAll(scored.cmp.ebay_listings))
        /\ scored.cmp.potential_profit
               = Some(MinOverAll(scored.cmp.ebay_listings) - scored.cmp.idealo_price)

\* C23 witness: the cheapest listing is a less relevant one, below every
\* best match, and it sets the benchmark.
C23_Witness ==
    /\ ScoredNonEmpty
    /\ \E i \in DOMAIN scored.cmp.ebay_listings :
        scored.cmp.ebay_listings[i].is_best_match
    /\ \A i \in DOMAIN scored.cmp.ebay_listings :
        scored.cmp.ebay_listings[i].is_best_match
            => scored.cmp.ebay_listings[i].price > Get(scored.cmp.min_ebay_price)
    /\ scored.cmp.min_ebay_price = Some(110)

\* C24 (as claimed): after calculate_profitability on an empty listing set
\* min_ebay_price, potential_profit and profit_percentage are null and
\* is_profitable is false, whatever the fields held before.
C24_EmptySetAllNull ==
    (scored.op \in {"scored", "rescored"} /\ scored.before.ebay_listings = <<>>) =>
        /\ IsNone(scored.cmp.min_ebay_price)
        /\ IsNone(scored.cmp.potential_profit)
        /\ IsNone(scored.cmp.profit_percentage)
        /\ ~scored.cmp.is_profitable

\* C25 (as claimed): reference 100, listings priced 150, 130, 200, margin 20
\* give min_ebay_price 130, potential_profit 30, profit_percentage about
\* 23.08 (2308 hundredths, give or take one) and is_profitable true.
C25_ScenarioScores2308 ==
    ( /\ scored.op = "scored"
      /\ scored.cmp.idealo_price = 100
      /\ [i \in DOMAIN scored.cmp.ebay_listings |-> scored.cmp.ebay_listings[i].price]
             = <<150, 130, 200>>
      /\ scored.margin = 20 )
    => /\ scored.cmp.min_ebay_price = Some(130)
       /\ scored.cmp.potential_profit = Some(30)
       /\ ~IsNone(scored.cmp.profit_percentage)
       /\ Get(scored.cmp.profit_percentage) \in 2307 .. 2309
       /\ scored.cmp.is_profitable

----------------------------------------------------------------------------
(* The alert (C27, C28) *)

\* C27: the transport is invoked only for a profitable comparison with the
\* transport configured; otherwise the notifier returns false and nothing
\* is sent.
C27_TransportOnlyWhenProfitableAndConfigured ==
    notified.op = "send" =>
        /\ notified.result.transport_called
               => (notified.is_profitable /\ notified.configured)
        /\ (~notified.is_profitable \/ ~notified.configured)
               => /\ ~notified.result.returned
                  /\ ~notified.result.transport_called
                  /\ ~notified.result.raised

\* C27 witness: configured, not profitable, nothing would fail: not sent.
C27_Witness ==
    /\ notified.op = "send"
    /\ notified.configured
    /\ ~notified.is_profitable
    /\ notified.failure = "none"
    /\ ~notified.result.transport_called
    /\ ~notified.result.returned

\* C28: the text handed to the transport is at most 4096 characters long; a
\* message over the limit is cut and ends with the ellipsis marker, a
\* message within the limit goes out unchanged.
C28_TextWithinLimit ==
    (notified.op = "send" /\ notified.result.transport_called) =>
        /\ notified.result.text.len <= TelegramLimit
        /\ notified.message.len > TelegramLimit
               => /\ notified.result.text.ellipsis
                  /\ notified.result.text.len < notified.message.len
        /\ notified.message.len <= TelegramLimit
               => notified.result.text = notified.message

\* C28 witness: a message one character over the limit was cut and sent.
C28_Witness ==
    /\ notified.op = "send"
    /\ notified.message.len = TelegramLimit + 1
    /\ notified.result.transport_called
    /\ notified.result.returned
    /\ notified.result.text.ellipsis

----------------------------------------------------------------------------
(* The alert inside the comparison loop (C26, C29, C30) *)

\* the loop went on to the next work-list entry with this entry's writes
\* in the open transaction
LoopContinued ==
    /\ ~last.raised
    /\ pc = "compare"
    /\ worklist = last.needs
    /\ products = last.batch
    /\ idx = last.pos + 1
    /\ working = CompareBody(last.pre, last.batch, last.needs[last.pos],
                             last.listings, now)

C29_AtMostOneAlertPerEntity ==
    \A i, j \in DOMAIN alerts : alerts[i] = alerts[j] => i = j

\* C30: a statement that fails while the comparison results of one
\* work-list entry are saved does not end the comparison loop.
C30_DbFailureKeepsLoopRunning ==
    (last.op = "compare" /\ last.db_failed /\ ~last.search_failed) =>
        /\ pc = "compare"
        /\ worklist = last.needs
        /\ idx = last.pos + 1


----------------------------------------------------------------------------
(* The page session (C31) *)

\* C31: the page session of search_products is released on every exit path:
\* no session is open once the call has ended, by return or by exception.
C31_SessionReleasedOnEveryExit ==
    sPc \in {"idle", "returned", "raised", "done"} => ~session_open

\* C31 witness: the call ended with an exception raised while the result
\* elements of the last attempt were read, and the session is released.
C31_Witness ==
    /\ sPc = "raised"
    /\ Len(attempts) = MaxAttempts
    /\ LastAttempt.kind = "exception"
    /\ LastAttempt.class # "Exception"
    /\ ~session_open


----------------------------------------------------------------------------
(* Item-level failures (C32) *)

\* the call returned the listings parsed on its last attempt
AcceptedAttempt ==
    /\ sPc = "returned"
    /\ attempts # <<>>
    /\ LastAttempt.kind = "return"

\* page positions of the elements the accepted branch selects: the first
\* MAX_LEASTMATCH_ITEMS (no best matches), the first MAX_BESTMATCH_ITEMS
\* (many best matches), or the primary items and the first
\* MAX_LEASTMATCH_ITEMS after them (mixed)
ProcessedSlice ==
    LET elements == get_search_result_elements(parsed_page)
        a == analyze_search_results(parsed_page)
    IN IF LastAttempt.class = "NoMatches" THEN Take(elements, MAX_LEASTMATCH_ITEMS)
       ELSE IF LastAttempt.class = "TooMany" THEN Take(elements, MAX_BESTMATCH_ITEMS)
       ELSE IF a.divider_index = -1 THEN elements
       ELSE Take(elements, a.divider_index + MAX_LEASTMATCH_ITEMS)

\* C32: on an accepted attempt an item that does not extract is left out,
\* every item of the processed slice that extracts is returned, the
\* returned items are in page order, and the call returns.
C32_ItemFailuresAreLocal ==
    AcceptedAttempt =>
        /\ \A i \in DOMAIN listings_out :
               parsed_page.items[listings_out[i].pos] = "ok"
        /\ \A k \in DOMAIN ProcessedSlice :
               parsed_page.items[ProcessedSlice[k]] = "ok"
                   => \E i \in DOMAIN listings_out :
                          listings_out[i].pos = ProcessedSlice[k]
        /\ \A i, j \in DOMAIN listings_out :
               i < j => listings_out[i].pos < listings_out[j].pos

\* C32 witness: the processed slice of the accepted attempt starts with an
\* item that fails to extract and goes on with one that extracts, which is
\* returned.
C32_Witness ==
    /\ AcceptedAttempt
    /\ Len(ProcessedSlice) >= 2
    /\ parsed_page.items[ProcessedSlice[1]] = "bad"
    /\ parsed_page.items[ProcessedSlice[2]] = "ok"
    /\ \E i \in DOMAIN listings_out : listings_out[i].pos = ProcessedSlice[2]


----------------------------------------------------------------------------
(* Prices (C33) *)

\* C33 (as claimed): a price text that cannot be parsed gives no price
\* (never the value 0) and no listing, and a listing never has a price that
\* is zero or negative.
C33_UnparsablePriceIsNil ==
    priced.op = "parse" =>
        /\ ~IsFloat(CleanPrice(priced.price_text))
               => (priced.price = None /\ priced.listing = None)
        /\ priced.listing # None => Get(priced.listing).price > 0

\* the part of C33 about the listings: an item whose price text cannot be
\* parsed gives no listing, and a listing has a positive price
ListingPricePositive ==
    priced.op = "parse" =>
        /\ ~IsFloat(CleanPrice(priced.price_text)) => priced.listing = None
        /\ priced.listing # None => Get(priced.listing).price > 0


----------------------------------------------------------------------------
(* The classifier's counts (C34) *)

\* product items of the page
CardItems(page) == {p \in DOMAIN page.items : IsCard(page.items[p])}

\* C34: on the page of an accepted attempt, the primary count is the number
\* of product items before the first divider, or of all product items when
\* there is no divider; the divider index is that count, or -1 without a
\* divider.
C34_PrimaryCountIsItemsBeforeDivider ==
    AcceptedAttempt =>
        LET a == analyze_search_results(parsed_page)
            primary == {p \in CardItems(parsed_page) : IsPrimary(parsed_page, p)}
        IN /\ best_match_count(a) = Cardinality(primary)
           /\ FirstDivider(parsed_page.items) = 0
                  => /\ a.divider_index = -1
                     /\ best_match_count(a) = Cardinality(CardItems(parsed_page))
           /\ FirstDivider(parsed_page.items) # 0
                  => a.divider_index = Cardinality(primary)

\* C34 witness: an accepted page with an element that is no product item
\* before its divider, a product item before it and a product item after.
C34_Witness ==
    /\ AcceptedAttempt
    /\ FirstDivider(parsed_page.items) # 0
    /\ \E p \in DOMAIN parsed_page.items :
           p < FirstDivider(parsed_page.items) /\ parsed_page.items[p] = "other"
    /\ \E p \in CardItems(parsed_page) : IsPrimary(parsed_page, p)
    /\ \E p \in CardItems(parsed_page) : ~IsPrimary(parsed_page, p)
    /\ analyze_search_results(parsed_page).divider_index = 1


----------------------------------------------------------------------------
(* A failed comparison search (C35) *)

\* C35 (as claimed): when the comparison search of a work-list entry fails,
\* the entry's product is not recorded as checked: its last_ebay_check keeps
\* the value it had before the iteration.
C35_FailedSearchNotRecordedAsChecked ==
    (last.op = "compare" /\ last.search_failed /\ ~last.raised) =>
        working.product[last.product_id].last_ebay_check
            = last.pre.product[last.product_id].last_ebay_check


----------------------------------------------------------------------------
(* The work-list (C36) *)

\* C36 (as claimed): the work-list returned by process_scraped_products
\* holds each product id at most once, whatever the batch.
C36_WorklistIdsUnique ==
    \A i, j \in DOMAIN worklist :
        worklist[i].product_id = worklist[j].product_id => i = j


----------------------------------------------------------------------------
(* The reference price of a comparison (C37) *)

\* C37 (as claimed): the profit written for a work-list entry's product is
\* computed from the price of a batch element that has the product's
\* source_url, also when batch elements share a name.
C37_SnapshotFromOwnReferencePrice ==
    (last.op = "compare" /\ ~last.raised /\ last.listings # <<>>) =>
        LET row == working.product[last.product_id]
        IN \E k \in DOMAIN last.batch :
            /\ last.batch[k].source_url = row.source_url
            /\ row.potential_profit =
                   calculate_profitability(
                       ProductComparison(last.batch[k].price, last.listings),
                       DefaultMinProfitMargin).potential_profit


----------------------------------------------------------------------------
(* Alerts and the transaction (C38) *)

\* C38 (as claimed): once the run is over, the profit snapshot of every
\* product an alert was sent for in this run is committed.
C38_AlertedSnapshotCommitted ==
    pc = "idle" =>
        \A i \in DOMAIN alerts :
            /\ committed.product[alerts[i]].is_profitable
            /\ committed.product[alerts[i]].min_ebay_price # None
            /\ \E k \in DOMAIN committed.ebaylisting :
                   committed.ebaylisting[k].product_id = alerts[i]


----------------------------------------------------------------------------
(* The empty batch (C39) *)

\* C39: a run on an empty batch writes nothing: the catalog, the price
\* history and the listings are what they were, and no comparison follows.
C39_EmptyBatchChangesNothing ==
    (last.op = "reconcile" /\ last.batch = <<>>) =>
        /\ ~last.raised
        /\ committed = last.pre
        /\ working = last.pre
        /\ worklist = <<>>
        /\ pc = "idle"

\* C39 witness: a run on an empty batch over a catalog with an active
\* product, which is still active.
C39_Witness ==
    /\ last.op = "reconcile"
    /\ last.batch = <<>>
    /\ \E id \in DOMAIN last.pre.product : last.pre.product[id].is_active
    /\ \E id \in DOMAIN committed.product : committed.product[id].is_active


----------------------------------------------------------------------------
(* The selector cache (C40) *)

\* C40: the cached selector of a key is always one of the key's selectors;
\* directly after a call that returned a match the cache holds the selector
\* that produced it, and directly after a call that returned None the key
\* has no cache entry.
C40_CacheFollowsLastCall ==
    /\ \A k \in Keys :
           ~IsNone(successful_selectors[k])
               => Get(successful_selectors[k]) \in Range(SELECTORS[k])
    /\ selLast.op = "try" =>
           /\ ~IsNone(selLast.result)
                  => /\ successful_selectors[selLast.key] = selLast.result
                     /\ Get(selLast.result) \in selLast.matches
           /\ IsNone(selLast.result)
                  => IsNone(successful_selectors[selLast.key])

\* C40 witness: a selector was cached, and the call on a snapshot that none
\* of the selectors matches returned None and left no cache entry.
C40_Witness ==
    /\ selLast.op = "try"
    /\ ~IsNone(selLast.cached_before)
    /\ selLast.matches = {}
    /\ IsNone(selLast.result)
    /\ IsNone(successful_selectors[selLast.key])

====
